---- MODULE Spec2Model ----
(***************************************************************************)
(* A model of the sequence container Seq of src/src/lib.rs.                *)
(*                                                                         *)
(* Sequence values live in an arena `nodes`: the value with id i > 0 is    *)
(* nodes[i], a ConsRef or ConsOwn record holding its element `ft` and the  *)
(* id `rt` of its tail; id 0 is Seq::Empty.  A borrowed tail (&'a Seq) and *)
(* an owned tail (Box<Seq>) are both ids; the borrow checker's rules are   *)
(* the guards of the constructing actions.                                 *)
(***************************************************************************)
EXTENDS Integers, Sequences, FiniteSets, TLC

\* Bounds of the model.
MaxNodes == 3
MaxElem == 2
MaxCursors == 2
MaxIterNodes == 2
MaxExtraCalls == 1
MaxCap == 4
MaxRollBase == 2
MaxRing == 4
MaxTake == 12
MaxStack == 6

VARIABLES
    nodes,   \* the arena: a sequence of ConsRef / ConsOwn records
    ret,     \* the last call of an accessor, ==, seqdef! or rollout and its result
    iters    \* the SeqIterator values: `cur` is the struct's field, the rest history

vars == <<nodes, ret, iters>>

Elem == 1..MaxElem

\* Option<T>
None == <<>>
Some(x) == <<x>>

\* enum Seq: the three variants.
Empty == 0
ConsRef(ft, rt) == [kind |-> "ConsRef", ft |-> ft, rt |-> rt]
ConsOwn(ft, rt) == [kind |-> "ConsOwn", ft |-> ft, rt |-> rt]

Ids(h) == 0..Len(h)

\* All sequences over S of length at most n.
SeqsUpTo(S, n) == UNION {[1..k -> S] : k \in 0..n}

\* The element type T is opaque to Seq: its values are only stored, handed
\* out and compared with ==.  The inputs therefore name element values in
\* the order of their first use: a value v > 1 is used only once v - 1 is.
ElemsUsed(h) == {h[i].ft : i \in 1..Len(h)}
FirstUse(h, vals) ==
    \A j \in 1..Len(vals) :
        \/ vals[j] = 1
        \/ (vals[j] - 1) \in (ElemsUsed(h) \cup {vals[i] : i \in 1..(j - 1)})

----
\* Seq::head
head(h, s) ==
    CASE s = Empty -> None
      [] s # Empty /\ h[s].kind = "ConsRef" -> Some(h[s].ft)
      [] s # Empty /\ h[s].kind = "ConsOwn" -> Some(h[s].ft)

\* tail moving the owned tail out of a ConsOwn node: no reference is left.
tail_own_none(h, s) ==
    CASE s = Empty -> None
      [] s # Empty /\ h[s].kind = "ConsRef" -> Some(h[s].rt)
      [] s # Empty /\ h[s].kind = "ConsOwn" -> None

\* Seq::tail
tail(h, s) ==
    CASE s = Empty -> None
      [] s # Empty /\ h[s].kind = "ConsRef" -> Some(h[s].rt)
      [] s # Empty /\ h[s].kind = "ConsOwn" -> Some(h[s].rt)

\* len not counting ConsOwn nodes.
RECURSIVE len_own_skips(_, _)
len_own_skips(h, s) ==
    CASE s = Empty -> 0
      [] s # Empty /\ h[s].kind = "ConsRef" -> 1 + len_own_skips(h, h[s].rt)
      [] s # Empty /\ h[s].kind = "ConsOwn" -> len_own_skips(h, h[s].rt)

\* Seq::len
RECURSIVE len(_, _)
len(h, s) ==
    CASE s = Empty -> 0
      [] s # Empty /\ h[s].kind = "ConsRef" -> 1 + len(h, h[s].rt)
      [] s # Empty /\ h[s].kind = "ConsOwn" -> 1 + len(h, h[s].rt)

\* == without the two mixed ConsRef/ConsOwn arms: they fall to `_ => false`.
RECURSIVE eq_no_mixed(_, _, _)
eq_no_mixed(h, a, b) ==
    CASE a = Empty /\ b = Empty -> TRUE
      [] a # Empty /\ b # Empty /\ h[a].kind = h[b].kind
            -> h[a].ft = h[b].ft /\ eq_no_mixed(h, h[a].rt, h[b].rt)
      [] OTHER -> FALSE

\* == comparing the heads of two ConsRef nodes and not their tails.
RECURSIVE eq_heads_only(_, _, _)
eq_heads_only(h, a, b) ==
    CASE a = Empty /\ b = Empty -> TRUE
      [] a # Empty /\ b # Empty /\ h[a].kind = "ConsRef" /\ h[b].kind = "ConsRef"
            -> h[a].ft = h[b].ft
      [] a # Empty /\ b # Empty /\ ~(h[a].kind = "ConsRef" /\ h[b].kind = "ConsRef")
            -> h[a].ft = h[b].ft /\ eq_heads_only(h, h[a].rt, h[b].rt)
      [] OTHER -> FALSE

\* impl PartialEq for Seq: the four node/node arms, Empty/Empty, and `_ => false`.
RECURSIVE eq(_, _, _)
eq(h, a, b) ==
    CASE a = Empty /\ b = Empty -> TRUE
      [] a # Empty /\ b # Empty /\ h[a].kind = "ConsRef" /\ h[b].kind = "ConsRef"
            -> h[a].ft = h[b].ft /\ eq(h, h[a].rt, h[b].rt)
      [] a # Empty /\ b # Empty /\ h[a].kind = "ConsRef" /\ h[b].kind = "ConsOwn"
            -> h[a].ft = h[b].ft /\ eq(h, h[a].rt, h[b].rt)
      [] a # Empty /\ b # Empty /\ h[a].kind = "ConsOwn" /\ h[b].kind = "ConsRef"
            -> h[a].ft = h[b].ft /\ eq(h, h[a].rt, h[b].rt)
      [] a # Empty /\ b # Empty /\ h[a].kind = "ConsOwn" /\ h[b].kind = "ConsOwn"
            -> h[a].ft = h[b].ft /\ eq(h, h[a].rt, h[b].rt)
      [] OTHER -> FALSE

\* seqdef!: the repetition `$( let $id = ConsRef($ftx, & $id); )*`.  st is the
\* arena so far and the id the name $id is bound to; each value shadows $id
\* with a new ConsRef node whose tail is the previous $id.
RECURSIVE seqdefRest(_, _)
seqdefRest(st, ftx) ==
    IF ftx = <<>>
    THEN st
    ELSE seqdefRest([h |-> Append(st.h, ConsRef(Head(ftx), st.id)),
                     id |-> Len(st.h) + 1],
                    Tail(ftx))

\* seqdef!($id; $($ftx),*): `let $id = Seq::Empty`, then the repetition.
seqdefNoBase(h, ftx) ==
    seqdefRest([h |-> h, id |-> Empty], ftx)

\* seqdef!($id; $rt => $ft): one ConsRef on the base.
seqdefOne(h, rt, ft) ==
    [h |-> Append(h, ConsRef(ft, rt)), id |-> Len(h) + 1]

\* The third arm starting from Seq::Empty, as the first arm does, and not
\* from $rt.
seqdefMany_drops_base(h, rt, ft0, ftx) ==
    seqdefRest([h |-> Append(h, ConsRef(ft0, Empty)), id |-> Len(h) + 1], ftx)

\* seqdef!($id; $rt => $ft0, $($ftx),*): ConsRef($ft0, $rt), then the repetition.
seqdefMany(h, rt, ft0, ftx) ==
    seqdefRest([h |-> Append(h, ConsRef(ft0, rt)), id |-> Len(h) + 1], ftx)

\* tests::test_macro: s = [0]; t = 1,2,3 on &s; u = 0,1,2,3 on empty();
\* v = [0]; w = 0,1,2,3 without a base; with its assertions.
test_macro ==
    LET s == seqdefOne(<<>>, Empty, 0)
        t == seqdefMany(s.h, s.id, 1, <<2, 3>>)
        u == seqdefMany(t.h, Empty, 0, <<1, 2, 3>>)
        v == seqdefNoBase(u.h, <<0>>)
        w == seqdefNoBase(v.h, <<0, 1, 2, 3>>)
    IN  /\ ~eq(w.h, s.id, Empty)
        /\ ~eq(w.h, t.id, Empty)
        /\ ~eq(w.h, u.id, Empty)
        /\ eq(w.h, u.id, t.id)
        /\ eq(w.h, v.id, s.id)
        /\ eq(w.h, w.id, u.id)

\* next treating a ConsOwn node as the end of the sequence.
next_own_ends(h, cur) ==
    CASE cur = Empty -> [cur |-> cur, item |-> None]
      [] cur # Empty /\ h[cur].kind = "ConsRef"
            -> [cur |-> h[cur].rt, item |-> Some(h[cur].ft)]
      [] cur # Empty /\ h[cur].kind = "ConsOwn"
            -> [cur |-> cur, item |-> None]

\* next moving past the tail of a ConsRef node, to the tail's tail.
next_ref_skips(h, cur) ==
    CASE cur = Empty -> [cur |-> cur, item |-> None]
      [] cur # Empty /\ h[cur].kind = "ConsRef"
            -> [cur |-> IF h[cur].rt = Empty THEN Empty ELSE h[h[cur].rt].rt,
                item |-> Some(h[cur].ft)]
      [] cur # Empty /\ h[cur].kind = "ConsOwn"
            -> [cur |-> h[cur].rt, item |-> Some(h[cur].ft)]

\* SeqIterator::next on a cursor positioned at cur: the new position and the
\* item returned.
next(h, cur) ==
    CASE cur = Empty -> [cur |-> cur, item |-> None]
      [] cur # Empty /\ h[cur].kind = "ConsRef"
            -> [cur |-> h[cur].rt, item |-> Some(h[cur].ft)]
      [] cur # Empty /\ h[cur].kind = "ConsOwn"
            -> [cur |-> h[cur].rt, item |-> Some(h[cur].ft)]

\* {:?} of an element: its decimal digits.
debug(ft) == ToString(ft)

\* fmt that also renders what follows the first cell of an owned tail.
RECURSIVE fmt_own_rest(_, _)
fmt_own_rest(h, s) ==
    CASE s = Empty -> "<>"
      [] s # Empty /\ h[s].kind = "ConsRef" -> "<" \o debug(h[s].ft) \o ",...>"
      [] s # Empty /\ h[s].kind = "ConsOwn" ->
            "<" \o debug(h[s].ft) \o "," \o fmt_own_rest(h, h[s].rt) \o ">"

\* impl fmt::Debug for Seq: fmt
fmt(h, s) ==
    CASE s = Empty -> "<>"
      [] s # Empty /\ h[s].kind = "ConsRef" -> "<" \o debug(h[s].ft) \o ",...>"
      [] s # Empty /\ h[s].kind = "ConsOwn" -> "<" \o debug(h[s].ft) \o ",...>"

\* static CYC_A .. CYC_D: N static ConsRef nodes whose tails form a ring.  The
\* first node's tail is the last node, every other node's tail is the node
\* declared before it.
StaticRing(N, elems) ==
    [i \in 1..N |-> ConsRef(elems[i], IF i = 1 THEN N ELSE i - 1)]

\* CYC_A, CYC_B, CYC_C, CYC_D
CYC == StaticRing(4, <<"Forever", "Round", "And", "Round">>)

\* into_iter().take(n).fold(acc, |x, y| x + y.0.len()) from position cur.
RECURSIVE takeFold(_, _, _, _)
takeFold(h, cur, n, acc) ==
    IF n = 0
    THEN acc
    ELSE LET r == next(h, cur) IN
         IF r.item = None
         THEN acc
         ELSE takeFold(h, r.cur, n - 1, acc + Len(r.item[1]))

\* tests::test_cyclic: the first 3*4 elements from CYC_A count 3*20 characters.
test_cyclic ==
    takeFold(CYC, 1, 3 * 4, 0) = 3 * 20

\* rolloutFill taking all N places of the capacity as slots, the node
\* returned directly coming on top of them.
RECURSIVE rolloutFill_all_slots(_, _, _, _, _, _)
rolloutFill_all_slots(h, prev, held, used, N, rest) ==
    IF rest = <<>>
    THEN [res |-> "Ok", h |-> Append(h, ConsRef(held, prev)), id |-> Len(h) + 1]
    ELSE IF used >= N
         THEN [res |-> "CapacityExceeded"]
         ELSE rolloutFill_all_slots(Append(h, ConsRef(held, prev)), Len(h) + 1,
                                    Head(rest), used + 1, N, Tail(rest))

\* rolloutFill linking every slot to tailRef and not to the slot before it.
RECURSIVE rolloutFill_onto_tail(_, _, _, _, _, _)
rolloutFill_onto_tail(h, prev, held, used, N, rest) ==
    IF rest = <<>>
    THEN [res |-> "Ok", h |-> Append(h, ConsRef(held, prev)), id |-> Len(h) + 1]
    ELSE IF used >= N - 1
         THEN [res |-> "CapacityExceeded"]
         ELSE rolloutFill_onto_tail(Append(h, ConsRef(held, prev)), prev,
                                    Head(rest), used + 1, N, Tail(rest))

\* rollout(tailRef, capacity N, source), after the first value: `held` is the
\* value read last, `prev` the chain below it, `used` the number of the
\* N - 1 reserved slots already filled.  When the source ends, `held` becomes
\* the node returned directly; when it goes on, `held` needs a slot.
RECURSIVE rolloutFill(_, _, _, _, _, _)
rolloutFill(h, prev, held, used, N, rest) ==
    IF rest = <<>>
    THEN [res |-> "Ok", h |-> Append(h, ConsRef(held, prev)), id |-> Len(h) + 1]
    ELSE IF used >= N - 1
         THEN [res |-> "CapacityExceeded"]
         ELSE rolloutFill(Append(h, ConsRef(held, prev)), Len(h) + 1,
                          Head(rest), used + 1, N, Tail(rest))

\* rollout: an empty source is rejected; otherwise the source is read once,
\* in order, onto tailRef.
rollout(h, tailRef, N, source) ==
    IF source = <<>>
    THEN [res |-> "EmptyInput"]
    ELSE rolloutFill(h, tailRef, Head(source), 0, N, Tail(source))

----
Init ==
    /\ nodes = <<>>
    /\ ret = [op |-> "none"]
    /\ iters = <<>>

\* let s = Seq::ConsRef(v, t): t is any live sequence value.
LetConsRef(v, t) ==
    /\ Len(nodes) < MaxNodes
    /\ nodes' = Append(nodes, ConsRef(v, t))
    /\ UNCHANGED <<ret, iters>>

\* let s = Seq::ConsOwn(v, Box::new(t)): t is moved into the box, so it is
\* not owned by another node and not borrowed; Box::new(Seq::Empty) is a
\* fresh Empty.
LetConsOwn(v, t) ==
    /\ Len(nodes) < MaxNodes
    /\ t # Empty => \A i \in 1..Len(nodes) : nodes[i].rt # t
    /\ t # Empty => \A i \in 1..Len(iters) : iters[i].cur # t /\ iters[i].src # t
    /\ nodes' = Append(nodes, ConsOwn(v, t))
    /\ UNCHANGED <<ret, iters>>

Construct ==
    \E v \in Elem : \E t \in Ids(nodes) :
        /\ FirstUse(nodes, <<v>>)
        /\ LetConsRef(v, t) \/ LetConsOwn(v, t)

\* s.head()
CallHead(s) ==
    /\ ret' = [op |-> "head", a |-> s, val |-> head(nodes, s)]
    /\ UNCHANGED <<nodes, iters>>

\* s.tail() that moves an owned tail out of its node, leaving Empty behind.
CallTail_takes(s) ==
    /\ ret' = [op |-> "tail", a |-> s, val |-> tail(nodes, s)]
    /\ nodes' = IF s # Empty /\ nodes[s].kind = "ConsOwn"
                THEN [nodes EXCEPT ![s].rt = Empty]
                ELSE nodes
    /\ UNCHANGED iters

\* s.tail()
CallTail(s) ==
    /\ ret' = [op |-> "tail", a |-> s, val |-> tail(nodes, s)]
    /\ UNCHANGED <<nodes, iters>>

\* s.len()
CallLen(s) ==
    /\ ret' = [op |-> "len", a |-> s, val |-> len(nodes, s)]
    /\ UNCHANGED <<nodes, iters>>

\* format!("{:?}", s)
CallFmt(s) ==
    /\ ret' = [op |-> "fmt", a |-> s, val |-> fmt(nodes, s)]
    /\ UNCHANGED <<nodes, iters>>

\* a == b
CallEq(a, b) ==
    /\ ret' = [op |-> "eq", a |-> a, b |-> b, val |-> eq(nodes, a, b)]
    /\ UNCHANGED <<nodes, iters>>

Access ==
    \E a \in Ids(nodes) :
        \/ CallHead(a)
        \/ CallTail(a)
        \/ CallLen(a)
        \/ \E b \in Ids(nodes) : CallEq(a, b)

\* seqdef!(id; v1, ..., vk)
CallSeqdefNoBase(ftx) ==
    /\ Len(nodes) + Len(ftx) <= MaxNodes
    /\ LET r == seqdefNoBase(nodes, ftx) IN
        /\ nodes' = r.h
        /\ ret' = [op |-> "seqdef", arm |-> 1, a |-> Empty, vals |-> ftx, val |-> r.id]
    /\ UNCHANGED iters

\* seqdef!(id; rt => ft)
CallSeqdefOne(rt, ft) ==
    /\ Len(nodes) + 1 <= MaxNodes
    /\ LET r == seqdefOne(nodes, rt, ft) IN
        /\ nodes' = r.h
        /\ ret' = [op |-> "seqdef", arm |-> 2, a |-> rt, vals |-> <<ft>>, val |-> r.id]
    /\ UNCHANGED iters

\* seqdef!(id; rt => ft0, v2, ..., vk)
CallSeqdefMany(rt, ft0, ftx) ==
    /\ ftx # <<>>
    /\ Len(nodes) + 1 + Len(ftx) <= MaxNodes
    /\ LET r == seqdefMany(nodes, rt, ft0, ftx) IN
        /\ nodes' = r.h
        /\ ret' = [op |-> "seqdef", arm |-> 3, a |-> rt, vals |-> <<ft0>> \o ftx,
                   val |-> r.id]
    /\ UNCHANGED iters

Seqdef ==
    \/ \E ftx \in SeqsUpTo(Elem, MaxNodes - Len(nodes)) :
            FirstUse(nodes, ftx) /\ CallSeqdefNoBase(ftx)
    \/ \E rt \in Ids(nodes) : \E ft \in Elem :
            FirstUse(nodes, <<ft>>) /\ CallSeqdefOne(rt, ft)
    \/ \E rt \in Ids(nodes) : \E ft0 \in Elem :
            \E ftx \in SeqsUpTo(Elem, MaxNodes - Len(nodes)) :
                FirstUse(nodes, <<ft0>> \o ftx) /\ CallSeqdefMany(rt, ft0, ftx)

Next == Construct \/ Access \/ Seqdef

Spec == Init /\ [][Next]_vars

----
\* (&s).into_iter(): a new SeqIterator { cur: &s }.
IntoIter(s) ==
    /\ Len(iters) < MaxCursors
    /\ iters' = Append(iters, [cur |-> s, src |-> s, out |-> <<>>, last |-> <<>>,
                               extra |-> 0])
    /\ UNCHANGED <<nodes, ret>>

\* it.next() rewinding the cursor to its sequence when it returns None.
CallNext_restart(i) ==
    /\ LET it == iters[i]
           r == next(nodes, it.cur)
       IN  /\ r.item = None /\ it.last = <<None>> => it.extra < MaxExtraCalls
           /\ iters' = [iters EXCEPT ![i] =
                  [cur |-> IF r.item = None THEN it.src ELSE r.cur,
                   src |-> it.src,
                   out |-> it.out \o r.item,
                   last |-> <<r.item>>,
                   extra |-> IF r.item = None /\ it.last = <<None>>
                             THEN it.extra + 1 ELSE it.extra]]
    /\ UNCHANGED <<nodes, ret>>

\* it.next() with the position kept per sequence and not per cursor: every
\* cursor over the same sequence at the same position moves along.
CallNext_shared(i) ==
    /\ LET it == iters[i]
           r == next(nodes, it.cur)
       IN  /\ r.item = None /\ it.last = <<None>> => it.extra < MaxExtraCalls
           /\ iters' = [j \in 1..Len(iters) |->
                  IF j = i
                  THEN [cur |-> r.cur,
                        src |-> it.src,
                        out |-> it.out \o r.item,
                        last |-> <<r.item>>,
                        extra |-> IF r.item = None /\ it.last = <<None>>
                                  THEN it.extra + 1 ELSE it.extra]
                  ELSE IF iters[j].src = it.src /\ iters[j].cur = it.cur
                       THEN [iters[j] EXCEPT !.cur = r.cur]
                       ELSE iters[j]]
    /\ UNCHANGED <<nodes, ret>>

\* it.next() with a cycle guard: the cursor ends when it would come back to
\* the node it started from.
CallNext_cycle_guard(i) ==
    /\ LET it == iters[i]
           r == next(nodes, it.cur)
       IN  /\ r.item = None /\ it.last = <<None>> => it.extra < MaxExtraCalls
           /\ iters' = [iters EXCEPT ![i] =
                  [cur |-> IF r.cur = it.src THEN Empty ELSE r.cur,
                   src |-> it.src,
                   out |-> it.out \o r.item,
                   last |-> <<r.item>>,
                   extra |-> IF r.item = None /\ it.last = <<None>>
                             THEN it.extra + 1 ELSE it.extra]]
    /\ UNCHANGED <<nodes, ret>>

\* it.next() on the i-th cursor: only that cursor's `cur` is written.  `out`
\* collects the items returned, `last` holds the last return value (empty
\* before the first call), `extra` counts the calls made after the first None.
CallNext(i) ==
    /\ LET it == iters[i]
           r == next(nodes, it.cur)
       IN  /\ r.item = None /\ it.last = <<None>> => it.extra < MaxExtraCalls
           /\ iters' = [iters EXCEPT ![i] =
                  [cur |-> r.cur,
                   src |-> it.src,
                   out |-> it.out \o r.item,
                   last |-> <<r.item>>,
                   extra |-> IF r.item = None /\ it.last = <<None>>
                             THEN it.extra + 1 ELSE it.extra]]
    /\ UNCHANGED <<nodes, ret>>

ConstructIter ==
    /\ Len(nodes) < MaxIterNodes
    /\ Construct

NextIter ==
    \/ ConstructIter
    \/ \E s \in Ids(nodes) : IntoIter(s)
    \/ \E i \in 1..Len(iters) : CallNext(i)

SpecIter == Init /\ [][NextIter]_vars

----
\* One cursor together with the accessors, ==, Debug and the constructors.
IntoIterSole(s) ==
    /\ iters = <<>>
    /\ IntoIter(s)

NextAll ==
    \/ ConstructIter
    \/ Access
    \/ \E s \in Ids(nodes) : CallFmt(s)
    \/ \E s \in Ids(nodes) : IntoIterSole(s)
    \/ \E i \in 1..Len(iters) : CallNext(i)

SpecAll == Init /\ [][NextAll]_vars

----
\* The program's statics are a ring of N nodes; no cursor exists yet.
InitRing ==
    /\ \E N \in 1..MaxRing : \E elems \in [1..N -> Elem] :
            /\ FirstUse(<<>>, elems)
            /\ nodes = StaticRing(N, elems)
    /\ ret = [op |-> "none"]
    /\ iters = <<>>

\* CYC_x.into_iter(): one cursor, starting at any node of the ring.
IntoIterRing(s) ==
    /\ iters = <<>>
    /\ s # Empty
    /\ IntoIter(s)

\* .take(MaxTake): next() is called while fewer than MaxTake elements were
\* taken.
TakeNext(i) ==
    /\ Len(iters[i].out) < MaxTake
    /\ CallNext(i)

NextRing ==
    \/ \E s \in Ids(nodes) : IntoIterRing(s)
    \/ \E i \in 1..Len(iters) : TakeNext(i)

SpecRing == InitRing /\ [][NextRing]_vars

----
\* len() one activation at a time.  While a call runs, ret holds the nodes of
\* the activations that are waiting (stack, the innermost last) and the value
\* the innermost finished activation handed back (val, None while descending).
\* The sequences are those built by the constructors or a static ring.
InitLen ==
    /\ \/ nodes = <<>>
       \/ \E N \in 1..MaxRing : \E elems \in [1..N -> Elem] :
               /\ FirstUse(<<>>, elems)
               /\ nodes = StaticRing(N, elems)
    /\ ret = [op |-> "none"]
    /\ iters = <<>>

ConstructLen ==
    /\ ret.op # "len_call"
    /\ Construct

\* s.len() is entered.
LenCall(s) ==
    /\ ret.op # "len_call"
    /\ ret' = [op |-> "len_call", a |-> s, stack |-> <<s>>, val |-> None]
    /\ UNCHANGED <<nodes, iters>>

\* The value v leaves the innermost activation: to its caller inside len, or
\* to the caller of s.len() when it was the outermost one.
LenHandBack(v) ==
    IF Len(ret.stack) = 1
    THEN [op |-> "len", a |-> ret.a, val |-> v]
    ELSE [ret EXCEPT !.stack = SubSeq(@, 1, Len(@) - 1), !.val = Some(v)]

\* match self that treats a tail already being measured as the end.
LenMatch_cycle_guard ==
    /\ ret.op = "len_call"
    /\ ret.val = None
    /\ LET self == ret.stack[Len(ret.stack)] IN
        IF self = Empty
        THEN ret' = LenHandBack(0)
        ELSE IF \E k \in 1..Len(ret.stack) : ret.stack[k] = nodes[self].rt
             THEN ret' = [ret EXCEPT !.stack = Append(@, Empty)]
             ELSE /\ Len(ret.stack) < MaxStack
                  /\ ret' = [ret EXCEPT !.stack = Append(@, nodes[self].rt)]
    /\ UNCHANGED <<nodes, iters>>

\* match self: Empty => 0; ConsRef(_, rt) and ConsOwn(_, rt) => call rt.len().
LenMatch ==
    /\ ret.op = "len_call"
    /\ ret.val = None
    /\ LET self == ret.stack[Len(ret.stack)] IN
        IF self = Empty
        THEN ret' = LenHandBack(0)
        ELSE /\ Len(ret.stack) < MaxStack
             /\ ret' = [ret EXCEPT !.stack = Append(@, nodes[self].rt)]
    /\ UNCHANGED <<nodes, iters>>

\* 1 + rt.len(), once rt.len() has handed back its value.
LenReturn ==
    /\ ret.op = "len_call"
    /\ ret.val # None
    /\ ret' = LenHandBack(1 + ret.val[1])
    /\ UNCHANGED <<nodes, iters>>

NextLen ==
    \/ ConstructLen
    \/ \E s \in Ids(nodes) : LenCall(s)
    \/ LenMatch
    \/ LenReturn

\* A call that has been entered keeps running: the program is sequential.
SpecLen == InitLen /\ [][NextLen]_vars /\ WF_vars(LenMatch \/ LenReturn)

----
\* rollout(tailRef, N, source)
CallRollout(tailRef, N, source) ==
    /\ LET r == rollout(nodes, tailRef, N, source) IN
        /\ nodes' = IF r.res = "Ok" THEN r.h ELSE nodes
        /\ ret' = [op |-> "rollout", a |-> tailRef, cap |-> N, vals |-> source,
                   res |-> r.res, val |-> IF r.res = "Ok" THEN r.id ELSE Empty,
                   before |-> nodes]
    /\ UNCHANGED iters

ConstructRoll ==
    /\ ret.op = "none"
    /\ Len(nodes) < MaxRollBase
    /\ Construct

\* One call of rollout on an arena the constructors built: its result
\* depends on its arguments and the arena only.
Rollout ==
    /\ ret.op = "none"
    /\ \E tailRef \in Ids(nodes) : \E N \in 1..MaxCap :
            \E source \in SeqsUpTo(Elem, MaxCap + 1) :
                FirstUse(nodes, source) /\ CallRollout(tailRef, N, source)

NextRollout == ConstructRoll \/ Rollout

SpecRollout == Init /\ [][NextRollout]_vars

----
\* The elements of a finite acyclic sequence value, head first.
RECURSIVE Elems(_, _)
Elems(h, s) ==
    IF s = Empty THEN <<>> ELSE <<h[s].ft>> \o Elems(h, h[s].rt)

\* Same number of elements, pairwise equal in the same order.
SameElements(e1, e2) ==
    /\ Len(e1) = Len(e2)
    /\ \A i \in 1..Len(e1) : e1[i] = e2[i]

\* C1: a == b holds exactly when a and b hold the same number of elements,
\* pairwise equal in the same order, whatever mixture of ConsRef and ConsOwn
\* nodes each is built from; Empty == Empty, and Empty is equal to no
\* non-empty sequence in either argument order.
C1_EqIffSameElements ==
    /\ \A a, b \in Ids(nodes) :
            eq(nodes, a, b) <=> SameElements(Elems(nodes, a), Elems(nodes, b))
    /\ eq(nodes, Empty, Empty)
    /\ \A a \in 1..Len(nodes) : ~eq(nodes, Empty, a) /\ ~eq(nodes, a, Empty)
    /\ ret.op = "eq" =>
            ret.val = SameElements(Elems(nodes, ret.a), Elems(nodes, ret.b))

\* A ConsRef node and a distinct ConsOwn node of two elements compared equal.
C1_Witness ==
    /\ ret.op = "eq" /\ ret.val = TRUE
    /\ ret.a # Empty /\ ret.b # Empty /\ ret.a # ret.b
    /\ nodes[ret.a].kind = "ConsRef" /\ nodes[ret.b].kind = "ConsOwn"
    /\ len(nodes, ret.a) >= 2

\* S is on the chain of a through borrowed tails only (a is built on S by
\* ConsRef constructions).
RECURSIVE OnRefChain(_, _, _)
OnRefChain(h, a, S) ==
    \/ a = S
    \/ a # Empty /\ h[a].kind = "ConsRef" /\ OnRefChain(h, h[a].rt, S)

\* The values pushed onto S to build a, in the order they were pushed.
RECURSIVE Pushed(_, _, _)
Pushed(h, a, S) ==
    IF a = S THEN <<>> ELSE Append(Pushed(h, h[a].rt, S), h[a].ft)

C2_Branches ==
    \A S, a, b \in Ids(nodes) :
        OnRefChain(nodes, a, S) /\ OnRefChain(nodes, b, S) =>
            (eq(nodes, a, b) <=> Pushed(nodes, a, S) = Pushed(nodes, b, S))

C2_BaseUnchanged ==
    /\ Len(nodes') >= Len(nodes)
    /\ \A S \in 1..Len(nodes) :
            /\ nodes'[S] = nodes[S]
            /\ len(nodes', S) = len(nodes, S)
            /\ Elems(nodes', S) = Elems(nodes, S)

\* C2: two chains built by separate ConsRef constructions on a common tail S
\* are equal when the same values were pushed in the same order and unequal
\* when the pushed values differ; building branches leaves the length and the
\* elements of S unchanged.
C2_SharedTail == [](C2_Branches) /\ [][C2_BaseUnchanged]_vars

\* Two distinct ConsRef nodes on the same non-empty tail compared equal.
C2_Witness ==
    /\ ret.op = "eq" /\ ret.val = TRUE
    /\ ret.a # Empty /\ ret.b # Empty /\ ret.a # ret.b
    /\ nodes[ret.a].kind = "ConsRef" /\ nodes[ret.b].kind = "ConsRef"
    /\ nodes[ret.a].rt = nodes[ret.b].rt /\ nodes[ret.a].rt # Empty
----
\* The value reached from s by taking the tail n times.
RECURSIVE Drop(_, _, _)
Drop(h, s, n) ==
    IF n = 0 \/ s = Empty THEN s ELSE Drop(h, h[s].rt, n - 1)

\* The cursor has returned None.
Exhausted(it) == it.last = <<None>>

\* C3: the number of elements a fresh iterator over S returns until it
\* returns None equals S.len().
C3_DrainCountIsLen ==
    \A i \in 1..Len(iters) :
        Exhausted(iters[i]) => Len(iters[i].out) = len(nodes, iters[i].src)

\* A cursor over a two-element sequence with a ConsOwn head was drained.
C3_Witness ==
    \E i \in 1..Len(iters) :
        /\ Exhausted(iters[i])
        /\ iters[i].src # Empty
        /\ nodes[iters[i].src].kind = "ConsOwn"
        /\ Len(iters[i].out) = 2

\* A call of next() on cursor i in this step.
NextCalled(i) ==
    /\ Len(iters') = Len(iters)
    /\ iters'[i] # iters[i]

C4_Step ==
    \A i \in 1..Len(iters) :
        NextCalled(i) /\ iters[i].cur # Empty =>
            /\ iters'[i].last = <<head(nodes, iters[i].cur)>>
            /\ iters'[i].last = <<Some(nodes[iters[i].cur].ft)>>
            /\ <<iters'[i].cur>> = tail(nodes, iters[i].cur)
            /\ iters'[i].out = Append(iters[i].out, nodes[iters[i].cur].ft)

C4_Order ==
    \A i \in 1..Len(iters) :
        /\ Len(iters[i].out) <= Len(Elems(nodes, iters[i].src))
        /\ iters[i].out = SubSeq(Elems(nodes, iters[i].src), 1, Len(iters[i].out))
        /\ Exhausted(iters[i]) => iters[i].out = Elems(nodes, iters[i].src)
        /\ \A j \in 1..Len(iters) :
                /\ Exhausted(iters[i]) /\ Exhausted(iters[j])
                /\ eq(nodes, iters[i].src, iters[j].src)
                => iters[i].out = iters[j].out

\* C4: next() on a cursor at a non-empty node returns that node's element and
\* moves the cursor to that node's tail, for ConsRef and ConsOwn alike; so
\* iteration yields the elements from the head to the innermost one, and
\* equal chains of owned and of borrowed nodes yield the same elements.
C4_NextReturnsHeadMovesToTail == [](C4_Order) /\ [][C4_Step]_vars

\* Two drained cursors, one over a ConsOwn node and one over an equal ConsRef
\* node.
C4_Witness ==
    \E i, j \in 1..Len(iters) :
        /\ Exhausted(iters[i]) /\ Exhausted(iters[j])
        /\ iters[i].src # Empty /\ iters[j].src # Empty
        /\ nodes[iters[i].src].kind = "ConsOwn"
        /\ nodes[iters[j].src].kind = "ConsRef"
        /\ iters[i].out = iters[j].out

\* C5: once next() has returned None, the cursor is at Empty and every later
\* next() on it returns None and leaves it at Empty.
C5_NoneIsPermanent ==
    [][\A i \in 1..Len(iters) :
            Exhausted(iters[i]) =>
                /\ iters[i].cur = Empty
                /\ Exhausted(iters'[i])
                /\ iters'[i].cur = Empty
                /\ iters'[i].out = iters[i].out]_vars

\* A cursor over a non-empty sequence was called again after it returned None.
C5_Witness ==
    \E i \in 1..Len(iters) :
        /\ Exhausted(iters[i])
        /\ iters[i].extra >= 1
        /\ iters[i].src # Empty

C6_SameSequence ==
    \A i, j \in 1..Len(iters) :
        iters[i].src = iters[j].src =>
            /\ Len(iters[i].out) <= Len(iters[j].out) =>
                    iters[i].out = SubSeq(iters[j].out, 1, Len(iters[i].out))
            /\ Len(iters[i].out) = Len(iters[j].out) => iters[i].cur = iters[j].cur
            /\ Exhausted(iters[i]) /\ Exhausted(iters[j]) => iters[i].out = iters[j].out

C6_Independent ==
    /\ Len(iters') >= Len(iters)
    /\ \A i, j \in 1..Len(iters) :
            i # j /\ iters'[i] # iters[i] => iters'[j] = iters[j]
    /\ Len(iters') > Len(iters) =>
            /\ \A i \in 1..Len(iters) : iters'[i] = iters[i]
            /\ iters'[Len(iters')].cur = iters'[Len(iters')].src
            /\ iters'[Len(iters')].out = <<>>

\* C6: two cursors obtained from the same sequence yield the same ordered
\* elements under any interleaving of their next() calls: advancing or
\* exhausting one cursor changes no other cursor, and a later into_iter()
\* on the sequence starts at its head again.
C6_CursorsIndependent == [](C6_SameSequence) /\ [][C6_Independent]_vars

\* Two cursors over the same two-element sequence, one drained, the other
\* having returned one element.
C6_Witness ==
    /\ Len(iters) >= 2
    /\ iters[1].src = iters[2].src
    /\ Len(Elems(nodes, iters[1].src)) = 2
    /\ Exhausted(iters[1])
    /\ Len(iters[2].out) = 1
----
\* C7: head() and tail() return None for Empty; for a node of either variant
\* holding x and tail t, head() returns x and tail() returns t itself, so
\* for every non-empty s, s.tail().len() = s.len() - 1 and s.tail().head()
\* is the second element of s.
C7_HeadTail ==
    /\ head(nodes, Empty) = None
    /\ tail(nodes, Empty) = None
    /\ \A s \in 1..Len(nodes) :
            /\ head(nodes, s) = Some(nodes[s].ft)
            /\ tail(nodes, s) = Some(nodes[s].rt)
            /\ len(nodes, tail(nodes, s)[1]) = len(nodes, s) - 1
            /\ head(nodes, tail(nodes, s)[1]) =
                    IF Len(Elems(nodes, s)) >= 2
                    THEN Some(Elems(nodes, s)[2])
                    ELSE None
    /\ ret.op = "head" =>
            ret.val = IF ret.a = Empty THEN None ELSE Some(Elems(nodes, ret.a)[1])
    /\ ret.op = "tail" =>
            ret.val = IF ret.a = Empty THEN None ELSE Some(nodes[ret.a].rt)

\* tail() was called on a ConsOwn node whose owned tail is not Empty.
C7_Witness ==
    /\ ret.op = "tail"
    /\ ret.a # Empty
    /\ nodes[ret.a].kind = "ConsOwn"
    /\ ret.val # None
    /\ ret.val[1] # Empty

\* C8: len() is 0 for Empty and 1 + len(tail) for a node of either variant,
\* so a sequence built by k prepends on Empty, in any mixture of ConsRef and
\* ConsOwn, has length k.
C8_Len ==
    /\ len(nodes, Empty) = 0
    /\ \A s \in 1..Len(nodes) :
            /\ len(nodes, s) = 1 + len(nodes, nodes[s].rt)
            /\ len(nodes, s) = Len(Elems(nodes, s))
    /\ ret.op = "len" => ret.val = Len(Elems(nodes, ret.a))
    /\ ret.op = "seqdef" /\ ret.a = Empty => len(nodes, ret.val) = Len(ret.vals)

\* len() was called on a ConsOwn node on top of a ConsRef node on top of a
\* third node, and returned 3.
C8_Witness ==
    /\ ret.op = "len"
    /\ ret.a # Empty
    /\ nodes[ret.a].kind = "ConsOwn"
    /\ nodes[ret.a].rt # Empty
    /\ nodes[nodes[ret.a].rt].kind = "ConsRef"
    /\ ret.val = 3

\* The id the k-th value of a seqdef! call was pushed on: the base for the
\* first, the node of the value before it for the others.  The call's nodes
\* are the last Len(vals) of the arena it returned.
PushedOn(base, first, k) == IF k = 1 THEN base ELSE first + k - 2

\* C9: seqdef! pushing v1, ..., vk onto a base B is ConsRef(v1, B), then
\* ConsRef(v2, previous result), and so on: vk is the head of the final
\* value and v1 the node closest to B; without a base the base is Empty; and
\* the values of tests::test_macro compare equal.
C9_SeqdefIsRepeatedConsRef ==
    /\ test_macro
    /\ ret.op = "seqdef" /\ ret.arm = 1 => ret.a = Empty
    /\ ret.op = "seqdef" /\ ret.vals = <<>> => ret.val = ret.a
    /\ ret.op = "seqdef" /\ ret.vals # <<>> =>
            LET k == Len(ret.vals)
                first == ret.val - k + 1
            IN  /\ first >= 1
                /\ ret.val <= Len(nodes)
                /\ \A j \in 1..k :
                        nodes[first + j - 1] =
                            ConsRef(ret.vals[j], PushedOn(ret.a, first, j))
                /\ head(nodes, ret.val) = Some(ret.vals[k])
                /\ Drop(nodes, ret.val, k - 1) = first
                /\ Drop(nodes, ret.val, k) = ret.a
                /\ Elems(nodes, ret.val) =
                        [j \in 1..k |-> ret.vals[k + 1 - j]] \o Elems(nodes, ret.a)

\* seqdef! pushed two different values onto a non-empty base.
C9_Witness ==
    /\ ret.op = "seqdef"
    /\ ret.arm = 3
    /\ ret.a # Empty
    /\ Len(ret.vals) = 2
    /\ ret.vals[1] # ret.vals[2]

\* C10: rollout fails with EmptyInput when the source yields no value,
\* whatever the capacity; fails with CapacityExceeded when the source yields
\* more values than the capacity; and succeeds when it yields between 1 and
\* N values.  Both failures are results, not crashes.
C10_RolloutResult ==
    ret.op = "rollout" =>
        /\ ret.res \in {"Ok", "EmptyInput", "CapacityExceeded"}
        /\ Len(ret.vals) = 0 => ret.res = "EmptyInput"
        /\ Len(ret.vals) > ret.cap => ret.res = "CapacityExceeded"
        /\ Len(ret.vals) >= 1 /\ Len(ret.vals) <= ret.cap => ret.res = "Ok"

\* rollout was given 5 values with capacity 4 and failed with
\* CapacityExceeded.
C10_Witness ==
    /\ ret.op = "rollout"
    /\ Len(ret.vals) = 5
    /\ ret.cap = 4
    /\ ret.res = "CapacityExceeded"
----
\* C11: a successful rollout returns a chain of exactly as many nodes as the
\* source yielded values, stacked on tailRef in source order: the first value
\* read is the node closest to tailRef, the last one the head of the result,
\* and the chain below the new nodes is tailRef unchanged.  A failing rollout
\* returns no sequence and leaves tailRef and the arena as they were.
C11_RolloutChain ==
    ret.op = "rollout" =>
        LET k == Len(ret.vals)
            base == Len(ret.before)
        IN  /\ ret.res = "Ok" =>
                    /\ Len(nodes) = base + k
                    /\ SubSeq(nodes, 1, base) = ret.before
                    /\ ret.val = base + k
                    /\ \A j \in 1..k :
                            nodes[base + j] =
                                ConsRef(ret.vals[j], PushedOn(ret.a, base + 1, j))
                    /\ len(nodes, ret.val) = k + len(ret.before, ret.a)
                    /\ head(nodes, ret.val) = Some(ret.vals[k])
                    /\ Drop(nodes, ret.val, k - 1) = base + 1
                    /\ nodes[base + 1].ft = ret.vals[1]
                    /\ Drop(nodes, ret.val, k) = ret.a
                    /\ Elems(nodes, ret.val) =
                            [j \in 1..k |-> ret.vals[k + 1 - j]]
                                \o Elems(ret.before, ret.a)
            /\ ret.res # "Ok" =>
                    /\ nodes = ret.before
                    /\ ret.val = Empty

\* rollout stacked three values, not all the same, on a non-empty tailRef.
C11_Witness ==
    /\ ret.op = "rollout"
    /\ ret.res = "Ok"
    /\ ret.a # Empty
    /\ Len(ret.vals) = 3
    /\ ret.vals[1] # ret.vals[3]
----
\* The ring node reached from node s of a ring of N nodes after k tails.
RingNode(N, s, k) == ((s - 1 + N * k - k) % N) + 1

\* C12: iteration performs no cycle detection: on a ring of N nodes next()
\* never returns None, the k-th call returns the element of ring node
\* (k-1) mod N counted from the start node, and the cursor is back at the
\* start node after every N calls; the first 3*4 elements of the 4-node ring
\* of tests::test_cyclic are three full traversals (3*20 characters).
C12_RingIteration ==
    /\ test_cyclic
    /\ \A i \in 1..Len(iters) :
            LET it == iters[i]
                N == Len(nodes)
            IN  /\ ~Exhausted(it)
                /\ it.cur # Empty
                /\ \A k \in 1..Len(it.out) :
                        it.out[k] = nodes[RingNode(N, it.src, k - 1)].ft
                /\ it.cur = RingNode(N, it.src, Len(it.out))
                /\ Len(it.out) % N = 0 => it.cur = it.src
                /\ it.last # <<>> => Len(it.out) >= 1

\* Three full traversals of a ring of 4 nodes, started at its first node.
C12_Witness ==
    /\ Len(nodes) = 4
    /\ Len(iters) = 1
    /\ iters[1].src = 1
    /\ Len(iters[1].out) = 12
    /\ iters[1].cur = 1
    /\ nodes[1].ft # nodes[4].ft

----
\* The text the claim gives for a sequence: "<>" for Empty, otherwise "<", the
\* Debug text of the head, ",...>".
Rendering(h, s) ==
    IF head(h, s) = None THEN "<>" ELSE "<" \o debug(head(h, s)[1]) \o ",...>"

\* C15: Debug rendering depends only on the top node.  Empty renders as "<>",
\* a non-empty sequence of either variant renders as "<" + debug(head) +
\* ",...>", and two sequences with the same head render identically whatever
\* their tails and tail variants are; every format! call returns that text.
C15_DebugTopNodeOnly ==
    /\ fmt(nodes, Empty) = "<>"
    /\ \A s \in Ids(nodes) : fmt(nodes, s) = Rendering(nodes, s)
    /\ \A a, b \in 1..Len(nodes) :
            nodes[a].ft = nodes[b].ft => fmt(nodes, a) = fmt(nodes, b)
    /\ ret.op = "fmt" => ret.val = Rendering(nodes, ret.a)

\* A ConsOwn sequence has been formatted, and a ConsRef sequence with the same
\* head but a tail of different elements has the same text.
C15_Witness ==
    /\ ret.op = "fmt"
    /\ ret.a # Empty
    /\ nodes[ret.a].kind = "ConsOwn"
    /\ \E b \in 1..Len(nodes) :
            /\ nodes[b].kind = "ConsRef"
            /\ nodes[b].ft = nodes[ret.a].ft
            /\ Elems(nodes, nodes[b].rt) # Elems(nodes, nodes[ret.a].rt)
            /\ fmt(nodes, b) = ret.val

----
\* Every node that exists before a step exists after it with the same
\* variant, element and tail reference.
NodesKept ==
    \A i \in 1..Len(nodes) : i <= Len(nodes') /\ nodes'[i] = nodes[i]

\* The step is a call of head, tail, len, ==, Debug formatting, into_iter or
\* next: it leaves a new result or moves or creates a cursor.
IsCall == ret' # ret \/ iters' # iters

\* C13: a sequence value is immutable once constructed.  No step of head,
\* tail, len, ==, Debug formatting, into_iter or next changes the nodes at
\* all, and constructing a node on top of existing ones only adds the new
\* node: the element and the tail reference of every existing node stay.
C13_Immutable ==
    [][NodesKept /\ (IsCall => nodes' = nodes)]_vars

\* A node has been built on top of the first node, a cursor over that new
\* node has yielded its element and moved on to the first node, and a
\* sequence has been formatted.
C13_Witness ==
    /\ Len(nodes) >= 2
    /\ nodes[2].rt = 1
    /\ Len(iters) = 1
    /\ iters[1].src = 2
    /\ iters[1].cur = 1
    /\ iters[1].out = <<nodes[2].ft>>
    /\ ret.op = "fmt"

----
\* Following tail references from s reaches Empty within n nodes.
RECURSIVE EndsWithin(_, _, _)
EndsWithin(h, s, n) ==
    \/ s = Empty
    \/ n > 0 /\ EndsWithin(h, h[s].rt, n - 1)

\* s is finite and acyclic: its tail references do not form a cycle.
Finite(h, s) == EndsWithin(h, s, Len(h))

\* len() has handed back a value only for finite acyclic sequences, and the
\* value is the number of elements.
C14_ReturnsOnlyFinite ==
    ret.op = "len" => Finite(nodes, ret.a) /\ ret.val = len(nodes, ret.a)

\* On a sequence whose tail references form a cycle every activation of a
\* running call finds a non-empty node: none has handed back a value.
C14_CycleKeepsRecursing ==
    (ret.op = "len_call" /\ ~Finite(nodes, ret.a)) =>
        /\ ret.val = None
        /\ \A k \in 1..Len(ret.stack) : ret.stack[k] # Empty

\* C14: len() terminates on every finite acyclic sequence, and on a structure
\* whose tail references form a cycle it recurses without termination: it has
\* no cycle guard and never returns a value.
C14_LenTermination ==
    /\ [](C14_ReturnsOnlyFinite /\ C14_CycleKeepsRecursing)
    /\ (ret.op = "len_call" /\ Finite(nodes, ret.a)) ~> (ret.op = "len")

\* A call on a ring of at least two nodes has more activations than there are
\* nodes: it has come round to the node it started from and gone on.
C14_Witness ==
    /\ ret.op = "len_call"
    /\ Len(nodes) >= 2
    /\ ~Finite(nodes, ret.a)
    /\ Len(ret.stack) > Len(nodes) + 1
    /\ ret.stack[Len(nodes) + 1] = ret.a
====
